---- MODULE Spec2Model ----
(***************************************************************************)
(* Module initialisation of the testrepository package                     *)
(* (src/testrepository/__init__.py, lines 25-36).                          *)
(*                                                                         *)
(* The module body is three statements:                                    *)
(*   27  _semantic_version =                                               *)
(*          pbr.version.VersionInfo('pbr_testpackage').semantic_version()  *)
(*   35  version_info = _semantic_version.version_tuple()                  *)
(*   36  __version__  = _semantic_version.release_string()                 *)
(* No statement is guarded by try/except, so an exception raised by any of *)
(* them ends the module body at that statement.                            *)
(*                                                                         *)
(* The three calls are calls into the pbr library (pbr.version and, for    *)
(* the not-installed case, pbr.packaging.get_version).  They are modelled  *)
(* by what the library does for the inputs enumerated here.                *)
(*                                                                         *)
(* Text is modelled as a sequence of one-character strings, so that        *)
(* split / isdigit / int / str are computed rather than assumed.           *)
(***************************************************************************)
EXTENDS Integers, Sequences, FiniteSets, TLC

\* ------------------------------------------------------------------ bounds
\* Largest one-digit major/minor/micro component of the enumerated versions.
MaxCore == 0
\* Largest one-digit serial (devN, 0aN, ...) of the enumerated versions.
MaxSerial == 2
\* A two-digit number used as component and as serial (exercises int/str).
TwoDigit == 12
\* How many times the installed-package index may be changed in one run.
MaxChanges == 1

CoreNums == (0 .. MaxCore) \cup {TwoDigit}
SerialNums == (0 .. MaxSerial) \cup {TwoDigit}

\* ------------------------------------------------------- Python text helpers
DigitChars == <<"0", "1", "2", "3", "4", "5", "6", "7", "8", "9">>

IsDigitChar(c) == \E i \in 1 .. 10 : DigitChars[i] = c

AlphaChars == {"a", "b", "c", "d", "e", "f", "g", "h", "i", "j", "k", "l", "m",
               "n", "o", "p", "q", "r", "s", "t", "u", "v", "w", "x", "y", "z"}

IsAlphaChar(c) == c \in AlphaChars

DigitVal(c) == (CHOOSE i \in 1 .. 10 : DigitChars[i] = c) - 1

\* str.isdigit(): non-empty and every character a decimal digit.
isdigit(s) == Len(s) > 0 /\ \A i \in 1 .. Len(s) : IsDigitChar(s[i])

\* int(s) for a digit string (callers test isdigit first; anything else is
\* Python's ValueError, which the callers model).
RECURSIVE int(_)
int(s) ==
    IF Len(s) = 0 THEN 0
    ELSE int(SubSeq(s, 1, Len(s) - 1)) * 10 + DigitVal(s[Len(s)])

\* str(n) for a non-negative integer.
RECURSIVE str(_)
str(n) ==
    IF n < 10 THEN <<DigitChars[n + 1]>>
    ELSE str(n \div 10) \o <<DigitChars[(n % 10) + 1]>>

\* s.split('.')
RECURSIVE split(_)
split(s) ==
    IF \A i \in 1 .. Len(s) : s[i] # "."
    THEN <<s>>
    ELSE LET i == CHOOSE k \in 1 .. Len(s) :
                      s[k] = "." /\ \A j \in 1 .. k - 1 : s[j] # "."
         IN  <<SubSeq(s, 1, i - 1)>> \o split(SubSeq(s, i + 1, Len(s)))

\* s.startswith(prefix)
startswith(s, prefix) ==
    Len(s) >= Len(prefix) /\ SubSeq(s, 1, Len(prefix)) = prefix

\* s.lstrip('vV')
RECURSIVE lstrip_vV(_)
lstrip_vV(s) ==
    IF Len(s) > 0 /\ s[1] \in {"v", "V"} THEN lstrip_vV(Tail(s)) ELSE s

\* ''.join(itertools.takewhile(pred, s)) for the two predicates pbr uses.
RECURSIVE takewhile_digit(_)
takewhile_digit(s) ==
    IF Len(s) > 0 /\ IsDigitChar(s[1])
    THEN <<s[1]>> \o takewhile_digit(Tail(s)) ELSE <<>>

RECURSIVE takewhile_alpha(_)
takewhile_alpha(s) ==
    IF Len(s) > 0 /\ IsAlphaChar(s[1])
    THEN <<s[1]>> \o takewhile_alpha(Tail(s)) ELSE <<>>

\* ''.join(itertools.dropwhile(isdigit, s))
RECURSIVE dropwhile_digit(_)
dropwhile_digit(s) ==
    IF Len(s) > 0 /\ IsDigitChar(s[1]) THEN dropwhile_digit(Tail(s)) ELSE s

\* needle in haystack (substring test), used by the statements about
\* "a string containing ...".
Contains(haystack, needle) ==
    \E i \in 1 .. Len(haystack) + 1 - Len(needle) :
        SubSeq(haystack, i, i + Len(needle) - 1) = needle

\* Literal pieces of text.
DOT == <<".">>
DEV == <<"d", "e", "v">>
POST == <<"p", "o", "s", "t">>
A == <<"a">>
B == <<"b">>
RC == <<"r", "c">>
ALPHA == <<"a", "l", "p", "h", "a">>
BETA == <<"b", "e", "t", "a">>
CANDIDATE == <<"c", "a", "n", "d", "i", "d", "a", "t", "e">>
NOT_A_VERSION == <<"n", "o", "t", "-", "a", "-", "v", "e", "r", "s", "i", "o", "n">>

\* ------------------------------------------------- pbr.version.SemanticVersion
\* A SemanticVersion object, or the exception that ended the call.
\* prerelease_type None is the empty text; error "none" means no exception.
SemanticVersion(major, minor, patch, prerelease_type, prerelease, dev_count) ==
    [error |-> "none", major |-> major, minor |-> minor, patch |-> patch,
     prerelease_type |-> prerelease_type,
     prerelease |-> IF prerelease_type = <<>> THEN 0 ELSE prerelease,
     dev_count |-> dev_count]

Raise(kind) ==
    [error |-> kind, major |-> 0, minor |-> 0, patch |-> 0,
     prerelease_type |-> <<>>, prerelease |-> 0, dev_count |-> 0]

NoVersion == Raise("unset")

\* SemanticVersion.increment() with its defaults (a patch-level increment).
increment(v) ==
    IF v.prerelease_type # <<>>
    THEN SemanticVersion(v.major, v.minor, v.patch, v.prerelease_type,
                         v.prerelease + 1, 0)
    ELSE SemanticVersion(v.major, v.minor, v.patch + 1, <<>>, 0, 0)

\* SemanticVersion.to_dev(dev_count)
to_dev(v, dev_count) ==
    SemanticVersion(v.major, v.minor, v.patch, v.prerelease_type,
                    v.prerelease, dev_count)

\* _parse_type(segment): (prerelease_type, int(prerelease)); int() raises
\* ValueError unless the rest is a digit string.
_parse_type(segment) ==
    LET seg == dropwhile_digit(segment)
        ptype == takewhile_alpha(seg)
        pre == SubSeq(seg, Len(ptype) + 1, Len(seg))
    IN  IF isdigit(pre)
        THEN [error |-> "none", prerelease_type |-> ptype, prerelease |-> int(pre)]
        ELSE [error |-> "ValueError", prerelease_type |-> <<>>, prerelease |-> 0]

\* remainder_loop with an unrecognised component skipped instead of raising.
RECURSIVE remainder_loop_lenient(_, _, _)
remainder_loop_lenient(remainder, dev, post) ==
    IF remainder = <<>> THEN [error |-> "none", dev_count |-> dev, post_count |-> post]
    ELSE LET component == Head(remainder)
         IN  IF startswith(component, DEV) /\ isdigit(SubSeq(component, 4, Len(component)))
             THEN remainder_loop_lenient(Tail(remainder),
                      int(SubSeq(component, 4, Len(component))), post)
             ELSE remainder_loop_lenient(Tail(remainder), dev, post)

\* The "while remainder:" loop over the trailing devN / postN components.
\* dev and post hold -1 for Python's None.
RECURSIVE remainder_loop(_, _, _)
remainder_loop(remainder, dev, post) ==
    IF remainder = <<>> THEN [error |-> "none", dev_count |-> dev, post_count |-> post]
    ELSE LET component == Head(remainder)
         IN  IF startswith(component, DEV)
             THEN IF isdigit(SubSeq(component, 4, Len(component)))
                  THEN remainder_loop(Tail(remainder),
                           int(SubSeq(component, 4, Len(component))), post)
                  ELSE [error |-> "ValueError", dev_count |-> -1, post_count |-> -1]
             ELSE IF startswith(component, POST)
             THEN IF isdigit(SubSeq(component, 5, Len(component)))
                  THEN remainder_loop(Tail(remainder), -1,
                           int(SubSeq(component, 5, Len(component))))
                  ELSE [error |-> "ValueError", dev_count |-> -1, post_count |-> -1]
             ELSE [error |-> "ValueError", dev_count |-> -1, post_count |-> -1]

\* The tail of _from_pip_string_unsafe, from "remainder = components[3:]".
parse_remainder(major, minor, patch, remainder) ==
    IF remainder # <<>> /\ isdigit(remainder[1]) /\ int(remainder[1]) # 0
    THEN \* old dev format - 0.1.2.3.g1234
         SemanticVersion(major, minor, patch, <<>>, 0, int(remainder[1]))
    ELSE IF remainder # <<>> /\ remainder[1] = <<>>
    THEN Raise("ValueError")   \* remainder[0][0]: IndexError, re-raised as ValueError
    ELSE LET typed == remainder # <<>> /\ remainder[1][1] \in {"0", "a", "b", "r"}
             pt == IF typed THEN _parse_type(remainder[1])
                   ELSE [error |-> "none", prerelease_type |-> <<>>, prerelease |-> 0]
             rest == IF typed THEN Tail(remainder) ELSE remainder
             lp == remainder_loop(rest, -1, -1)
         IN  IF pt.error # "none" THEN Raise(pt.error)
             ELSE IF lp.error # "none" THEN Raise(lp.error)
             ELSE LET dev_count == IF lp.dev_count < 0 THEN 0 ELSE lp.dev_count
                      result == SemanticVersion(major, minor, patch,
                                    pt.prerelease_type, pt.prerelease, dev_count)
                  IN  IF lp.post_count > 0
                      THEN IF dev_count # 0 THEN Raise("ValueError")
                           ELSE to_dev(increment(result), lp.post_count)
                      ELSE result

\* SemanticVersion._from_pip_string_unsafe(version_string)
_from_pip_string_unsafe(version_string) ==
    LET vs == lstrip_vV(version_string)
    IN  IF ~(Len(vs) > 0 /\ IsDigitChar(vs[1])) THEN Raise("ValueError")
        ELSE
        LET input0 == split(vs)
            digits0 == SelectSeq(input0, isdigit)
            len0 == Len(digits0)
            indexError == len0 < 3 /\ len0 < Len(input0) /\ input0[len0 + 1] = <<>>
            mixed == len0 < 3 /\ len0 < Len(input0) /\ input0[len0 + 1] # <<>>
                     /\ IsDigitChar(input0[len0 + 1][1])
            mixed_component == input0[len0 + 1]
            last_component == takewhile_digit(mixed_component)
            input_components ==
                IF mixed
                THEN SubSeq(input0, 1, len0)
                     \o <<last_component,
                          SubSeq(mixed_component, Len(last_component) + 1,
                                 Len(mixed_component))>>
                     \o SubSeq(input0, len0 + 2, Len(input0))
                ELSE input0
            digits1 == IF mixed THEN Append(digits0, last_component) ELSE digits0
            digit_len == Len(digits1)
            padded == IF digit_len = 1 THEN digits1 \o <<<<"0">>, <<"0">>>>
                      ELSE IF digit_len = 2 THEN Append(digits1, <<"0">>)
                      ELSE digits1
            components0 == padded \o SubSeq(input_components, digit_len + 1,
                                            Len(input_components))
            legacy == ~isdigit(components0[3])
            components == IF legacy
                          THEN SubSeq(components0, 1, 2) \o <<<<"0">>>>
                               \o SubSeq(components0, 3, Len(components0))
                          ELSE components0
        IN  IF len0 = 0 \/ indexError THEN Raise("ValueError")
            ELSE IF ~isdigit(components[2]) THEN Raise("ValueError")
            ELSE parse_remainder(int(components[1]), int(components[2]),
                                 int(components[3]),
                                 SubSeq(components, 4, Len(components)))

\* from_pip_string with minor and patch taken from each other's component.
from_pip_string_swapped(version_string) ==
    LET v == _from_pip_string_unsafe(version_string)
    IN  [v EXCEPT !.minor = v.patch, !.patch = v.minor]

\* SemanticVersion.from_pip_string: IndexError becomes ValueError (folded into
\* _from_pip_string_unsafe above); ValueError passes through.
from_pip_string(version_string) == _from_pip_string_unsafe(version_string)

\* version_tuple with the dev count itself as the serial of a dev version.
version_tuple_dev_count(v) ==
    IF v.prerelease_type # <<>>
    THEN IF v.prerelease_type \in {A, B, RC}
         THEN [raised |-> "none",
               value |-> <<v.major, v.minor, v.patch,
                           IF v.prerelease_type = A THEN "alpha"
                           ELSE IF v.prerelease_type = B THEN "beta"
                           ELSE "candidate",
                           v.prerelease>>]
         ELSE [raised |-> "KeyError", value |-> <<>>]
    ELSE IF v.dev_count # 0
    THEN [raised |-> "none",
          value |-> <<v.major, v.minor, v.patch, "dev", v.dev_count>>]
    ELSE [raised |-> "none", value |-> <<v.major, v.minor, v.patch, "final", 0>>]

\* SemanticVersion.version_tuple(): the version_info tuple, or <<>> with
\* raised = "KeyError" when type_map has no entry for the pre-release type.
version_tuple(v) ==
    IF v.prerelease_type # <<>>
    THEN LET dev == v.dev_count # 0
             known == v.prerelease_type \in {A, B, RC}
             level == IF v.prerelease_type = A
                      THEN (IF dev THEN "alphadev" ELSE "alpha")
                      ELSE IF v.prerelease_type = B
                      THEN (IF dev THEN "betadev" ELSE "beta")
                      ELSE (IF dev THEN "candidatedev" ELSE "candidate")
             serial == IF dev THEN v.dev_count ELSE v.prerelease
         IN  IF known
             THEN [raised |-> "none",
                   value |-> <<v.major, v.minor, v.patch, level, serial>>]
             ELSE [raised |-> "KeyError", value |-> <<>>]
    ELSE IF v.dev_count # 0
    THEN [raised |-> "none",
          value |-> <<v.major, v.minor, v.patch, "dev", v.dev_count - 1>>]
    ELSE [raised |-> "none", value |-> <<v.major, v.minor, v.patch, "final", 0>>]

\* SemanticVersion.brief_string(): "%s.%s.%s" % (major, minor, patch)
brief_string(v) == str(v.major) \o DOT \o str(v.minor) \o DOT \o str(v.patch)

\* release_string with an empty rc_marker (_long_version(".")).
release_string_no_marker(v) ==
    brief_string(v)
    \o (IF v.prerelease_type # <<>>
        THEN DOT \o v.prerelease_type \o str(v.prerelease)
        ELSE <<>>)
    \o (IF v.dev_count # 0 THEN DOT \o DEV \o str(v.dev_count) ELSE <<>>)

\* SemanticVersion.release_string() == self._long_version(".", "0")
release_string(v) ==
    brief_string(v)
    \o (IF v.prerelease_type # <<>>
        THEN DOT \o <<"0">> \o v.prerelease_type \o str(v.prerelease)
        ELSE <<>>)
    \o (IF v.dev_count # 0 THEN DOT \o DEV \o str(v.dev_count) ELSE <<>>)

\* ----------------------------------------------------------- the environment
\* The distribution names of the enumerated environments: the one named
\* pbr_testpackage, and the one the module itself ships in.
QueriedName == "pbr_testpackage"
OwnName == "testrepository"
Names == {QueriedName, OwnName}

\* An index entry for a distribution that is not installed.
Absent == <<"<not installed>">>

\* pbr.packaging.get_version(package_name): the setup-time logic
\* VersionInfo reverts to when the distribution is not installed:
\* $PBR_VERSION, then PKG-INFO/METADATA of the working directory if its Name
\* is the package, then git; an empty text is Python's falsy/None.
get_version(package_name, e) ==
    IF e.PBR_VERSION # <<>> THEN [raised |-> "none", value |-> e.PBR_VERSION]
    ELSE IF e.pkg_info.Name = package_name /\ e.pkg_info.Version # <<>>
    THEN [raised |-> "none", value |-> e.pkg_info.Version]
    ELSE IF e.git # <<>> THEN [raised |-> "none", value |-> e.git]
    ELSE [raised |-> "Exception", value |-> <<>>]

\* semantic_version with a default version substituted when nothing is found.
semantic_version_default(package, e) ==
    IF e.index[package] # Absent
    THEN from_pip_string(e.index[package])
    ELSE LET r == get_version(package, e)
         IN  IF r.raised # "none" THEN SemanticVersion(0, 0, 0, <<>>, 0, 0)
             ELSE from_pip_string(r.value)

\* pbr.version.VersionInfo(package).semantic_version() on a fresh VersionInfo:
\* the installed distribution's version text if there is one, else
\* get_version's; then SemanticVersion.from_pip_string of it.
semantic_version(package, e) ==
    IF e.index[package] # Absent
    THEN from_pip_string(e.index[package])
    ELSE LET r == get_version(package, e)
         IN  IF r.raised # "none" THEN Raise(r.raised)
             ELSE from_pip_string(r.value)

\* --------------------------------------------------- the enumerated inputs
\* Version texts as a distribution's metadata may hold them.
Cores == CoreNums \X CoreNums \X CoreNums
PreTypes == {A, B, RC}
Levels == {ALPHA, BETA, CANDIDATE}

CoreText(c) == str(c[1]) \o DOT \o str(c[2]) \o DOT \o str(c[3])
FinalText(c) == CoreText(c)
DevText(c, n) == CoreText(c) \o DOT \o DEV \o str(n)
PreText(c, t, n) == CoreText(c) \o DOT \o <<"0">> \o t \o str(n)
PreDevText(c, t, n, m) == PreText(c, t, n) \o DOT \o DEV \o str(m)
LevelText(c, level, n) == CoreText(c) \o DOT \o level \o str(n)

FinalTexts == {FinalText(c) : c \in Cores}
DevTexts == {DevText(c, n) : c \in Cores, n \in SerialNums}
PreTexts == {PreText(c, t, n) : c \in Cores, t \in PreTypes, n \in SerialNums}
PreDevTexts == {PreDevText(c, t, 1, m) : c \in Cores, t \in PreTypes, m \in SerialNums}
LevelTexts == {LevelText(c, l, n) : c \in Cores, l \in Levels, n \in SerialNums}

SHORT == <<"1", ".", "2">>
OLD_DEV == <<"1", ".", "2", ".", "3", ".", "4">>
UNKNOWN_TAIL == <<"1", ".", "2", ".", "3", ".", "f", "o", "o">>
POST_TEXT == <<"1", ".", "2", ".", "3", ".", "p", "o", "s", "t", "4">>
OtherTexts == {NOT_A_VERSION, SHORT, OLD_DEV, UNKNOWN_TAIL, POST_TEXT}

InstalledTexts ==
    FinalTexts \cup DevTexts \cup PreTexts \cup PreDevTexts \cup LevelTexts
    \cup OtherTexts

V100 == <<"1", ".", "0", ".", "0">>
V200 == <<"2", ".", "0", ".", "0">>
V300 == <<"3", ".", "0", ".", "0">>
V001dev7 == <<"0", ".", "0", ".", "1", ".", "d", "e", "v", "7">>

NoPkgInfo == [Name |-> "", Version |-> <<>>]
PkgInfos == {NoPkgInfo,
             [Name |-> QueriedName, Version |-> V200],
             [Name |-> OwnName, Version |-> V200],
             [Name |-> QueriedName, Version |-> NOT_A_VERSION]}

Environment(queried, own, pbr_version, pkg_info, git) ==
    [index |-> [n \in Names |-> IF n = QueriedName THEN queried ELSE own],
     PBR_VERSION |-> pbr_version, pkg_info |-> pkg_info, git |-> git]

\* Installed: any enumerated text, with the setup-time sources all empty or
\* all present.  Not installed: every combination of the setup-time sources.
Environments ==
    {Environment(q, o, f[1], f[2], f[3]) :
        q \in InstalledTexts, o \in {Absent, V100},
        f \in {<<<<>>, NoPkgInfo, <<>>>>,
               <<V300, [Name |-> QueriedName, Version |-> V200], V001dev7>>}}
    \cup
    {Environment(Absent, o, pv, pi, g) :
        o \in {Absent, V100}, pv \in {<<>>, V300}, pi \in PkgInfos,
        g \in {<<>>, V001dev7}}

\* ------------------------------------------------------------------- state
Procs == {"first", "second"}

VARIABLES
    env,                \* env[p]: the environment process p imports the module in
    pc,                 \* pc[p]: the next statement of the module body
    _semantic_version,  \* module global, line 27
    version_info,       \* module global, line 35 (<<>>: not bound)
    __version__,        \* module global, line 36 (<<>>: not bound)
    raised,             \* the exception that ended the module body ("none")
    changes             \* how many times an index was changed

vars == <<env, pc, _semantic_version, version_info, __version__, raised, changes>>

Unbound == <<>>

Start(envs) ==
    /\ env \in envs
    /\ pc = [p \in Procs |-> "line27"]
    /\ _semantic_version = [p \in Procs |-> NoVersion]
    /\ version_info = [p \in Procs |-> Unbound]
    /\ __version__ = [p \in Procs |-> Unbound]
    /\ raised = [p \in Procs |-> "none"]
    /\ changes = 0

\* ----------------------------------------------------------- the module body
\* The module asking for the distribution it ships in.
package_own == "testrepository"

\* The literal argument of VersionInfo(...) at line 27.
package == "pbr_testpackage"

\* Line 27 with state shared between imports: an import that is not the
\* first to resolve counts itself into the dev count.
Line27_stateful(p) ==
    /\ pc[p] = "line27"
    /\ LET v0 == semantic_version(package, env[p])
           v == IF v0.error = "none" /\ \E q \in Procs \ {p} : pc[q] # "line27"
                THEN to_dev(v0, v0.dev_count + 1) ELSE v0
       IN  IF v.error # "none"
           THEN /\ raised' = [raised EXCEPT ![p] = v.error]
                /\ pc' = [pc EXCEPT ![p] = "failed"]
                /\ UNCHANGED _semantic_version
           ELSE /\ _semantic_version' = [_semantic_version EXCEPT ![p] = v]
                /\ pc' = [pc EXCEPT ![p] = "line35"]
                /\ UNCHANGED raised
    /\ UNCHANGED <<env, version_info, __version__, changes>>

\* Line 27 recording what it resolved in the index, under the module's own
\* distribution name.
Line27_records(p) ==
    /\ pc[p] = "line27"
    /\ LET v == semantic_version(package, env[p])
       IN  IF v.error # "none"
           THEN /\ raised' = [raised EXCEPT ![p] = v.error]
                /\ pc' = [pc EXCEPT ![p] = "failed"]
                /\ UNCHANGED <<_semantic_version, env>>
           ELSE /\ _semantic_version' = [_semantic_version EXCEPT ![p] = v]
                /\ pc' = [pc EXCEPT ![p] = "line35"]
                /\ env' = [env EXCEPT ![p].index[OwnName] = release_string(v)]
                /\ UNCHANGED raised
    /\ UNCHANGED <<version_info, __version__, changes>>

\* line 27
Line27(p) ==
    /\ pc[p] = "line27"
    /\ LET v == semantic_version(package, env[p])
       IN  IF v.error # "none"
           THEN /\ raised' = [raised EXCEPT ![p] = v.error]
                /\ pc' = [pc EXCEPT ![p] = "failed"]
                /\ UNCHANGED _semantic_version
           ELSE /\ _semantic_version' = [_semantic_version EXCEPT ![p] = v]
                /\ pc' = [pc EXCEPT ![p] = "line35"]
                /\ UNCHANGED raised
    /\ UNCHANGED <<env, version_info, __version__, changes>>

\* line 35
Line35(p) ==
    /\ pc[p] = "line35"
    /\ LET t == version_tuple(_semantic_version[p])
       IN  IF t.raised # "none"
           THEN /\ raised' = [raised EXCEPT ![p] = t.raised]
                /\ pc' = [pc EXCEPT ![p] = "failed"]
                /\ UNCHANGED version_info
           ELSE /\ version_info' = [version_info EXCEPT ![p] = t.value]
                /\ pc' = [pc EXCEPT ![p] = "line36"]
                /\ UNCHANGED raised
    /\ UNCHANGED <<env, _semantic_version, __version__, changes>>

\* Line 36 as a binding that is refreshed from the index whenever it is
\* read, instead of being made once.
Line36_rebind(p) ==
    /\ pc[p] \in {"line36", "done"}
    /\ LET fresh == semantic_version(package, env[p])
           v == IF fresh.error = "none" THEN fresh ELSE _semantic_version[p]
       IN  __version__' = [__version__ EXCEPT ![p] = release_string(v)]
    /\ pc' = [pc EXCEPT ![p] = "done"]
    /\ UNCHANGED <<env, _semantic_version, version_info, raised, changes>>

\* line 36
Line36(p) ==
    /\ pc[p] = "line36"
    /\ __version__' = [__version__ EXCEPT ![p] = release_string(_semantic_version[p])]
    /\ pc' = [pc EXCEPT ![p] = "done"]
    /\ UNCHANGED <<env, _semantic_version, version_info, raised, changes>>

\* The environment: a distribution is installed, upgraded or removed in
\* process p's environment, at any time.
Reinstall(p, name, text) ==
    /\ changes < MaxChanges
    /\ env[p].index[name] # text
    /\ env' = [env EXCEPT ![p].index[name] = text]
    /\ changes' = changes + 1
    /\ UNCHANGED <<pc, _semantic_version, version_info, __version__, raised>>

\* One import of the module, in any enumerated environment, while the
\* index may change under it.
Init == Start({[p \in Procs |-> e] : e \in Environments})

Next ==
    \/ Line27("first")
    \/ Line35("first")
    \/ Line36("first")
    \/ \E name \in Names, text \in {Absent, V200} : Reinstall("first", name, text)

Spec == Init /\ [][Next]_vars

\* Two imports (two processes, or one process run twice), each in its own
\* environment; the second environment is the first, or the first with one
\* thing changed.
SmallTexts ==
    {FinalText(<<1, 0, 0>>), DevText(<<1, 2, 0>>, 3),
     PreText(<<2, 3, 1>>, B, 2), PreDevText(<<1, 2, 4>>, A, 1, TwoDigit),
     LevelText(<<2, 3, 1>>, BETA, 2), NOT_A_VERSION, Absent}

SmallEnvironments ==
    {Environment(q, o, pv, NoPkgInfo, <<>>) :
        q \in SmallTexts, o \in {Absent, V100}, pv \in {<<>>, V300}}

Variants(e) ==
    {e}
    \cup {[e EXCEPT !.index[OwnName] = t] : t \in {Absent, V100, V200}}
    \cup {[e EXCEPT !.index[QueriedName] = V200]}
    \cup {[e EXCEPT !.PBR_VERSION = pv] : pv \in {<<>>, V300}}

InitTwo ==
    Start(UNION {{[p \in Procs |-> IF p = "first" THEN e ELSE f] :
                     f \in Variants(e)} : e \in SmallEnvironments})

NextTwo ==
    \/ \E p \in Procs : Line27(p)
    \/ \E p \in Procs : Line35(p)
    \/ \E p \in Procs : Line36(p)
    \/ \E p \in Procs, name \in Names, text \in {Absent, V200} :
           Reinstall(p, name, text)

SpecTwo == InitTwo /\ [][NextTwo]_vars

\* -------------------------------------------------------------- vocabulary
Finished(p) == pc[p] \in {"done", "failed"}
Outcome(p) == <<raised[p], version_info[p], __version__[p]>>
\* What process p's index held for pbr_testpackage, as long as no index has
\* been changed since the import started.
Installed(p) == env[p].index[QueriedName]
NothingPublished(p) == version_info[p] = Unbound /\ __version__[p] = Unbound
NoSetupSources(e) ==
    e.PBR_VERSION = <<>> /\ e.pkg_info = NoPkgInfo /\ e.git = <<>>

\* ------------------------------------------------------------------ claims
FiveTags == {"alpha", "beta", "candidate", "final", "dev"}
LevelName(t) == IF t = A THEN "alpha" ELSE IF t = B THEN "beta" ELSE "candidate"

\* C1: with "X.Y.Z" installed for pbr_testpackage, the import does not fail
\* and, once complete, has published version_info = (X, Y, Z, "final", 0)
\* and __version__ = "X.Y.Z".
C1_FinalVersion ==
    \A p \in Procs :
        (changes = 0 /\ Installed(p) \in FinalTexts) =>
            /\ pc[p] # "failed"
            /\ pc[p] = "done" =>
                   \A c \in Cores :
                       Installed(p) = FinalText(c) =>
                           /\ version_info[p] = <<c[1], c[2], c[3], "final", 0>>
                           /\ __version__[p] = FinalText(c)

C1_Witness ==
    /\ pc["first"] = "done" /\ changes = 0
    /\ Installed("first") = FinalText(<<TwoDigit, 0, TwoDigit>>)
    /\ version_info["first"] = <<TwoDigit, 0, TwoDigit, "final", 0>>

\* C2 as stated: with "X.Y.Z.devN" installed, the completed import has
\* published version_info = (X, Y, Z, "dev", N) and a __version__ that
\* contains "dev" followed by N.
C2_DevSerialIsN ==
    \A p \in Procs :
        (changes = 0 /\ pc[p] = "done" /\ Installed(p) \in DevTexts) =>
            \A c \in Cores, n \in SerialNums :
                Installed(p) = DevText(c, n) =>
                    /\ version_info[p] = <<c[1], c[2], c[3], "dev", n>>
                    /\ Contains(__version__[p], DEV \o str(n))

\* C2 amended: with "X.Y.Z.devN" installed the import does not fail and,
\* once complete, has published (X, Y, Z, "dev", N - 1) and
\* __version__ = "X.Y.Z.devN" when N >= 1, and (X, Y, Z, "final", 0) and
\* __version__ = "X.Y.Z" when N = 0.
C2_DevSerialIsNMinus1 ==
    \A p \in Procs :
        (changes = 0 /\ Installed(p) \in DevTexts) =>
            /\ pc[p] # "failed"
            /\ pc[p] = "done" =>
                   \A c \in Cores, n \in SerialNums :
                       Installed(p) = DevText(c, n) =>
                           IF n >= 1
                           THEN /\ version_info[p] = <<c[1], c[2], c[3], "dev", n - 1>>
                                /\ __version__[p] = DevText(c, n)
                           ELSE /\ version_info[p] = <<c[1], c[2], c[3], "final", 0>>
                                /\ __version__[p] = FinalText(c)

C2_Witness ==
    /\ pc["first"] = "done" /\ changes = 0
    /\ Installed("first") = DevText(<<0, TwoDigit, 0>>, TwoDigit)
    /\ version_info["first"] = <<0, TwoDigit, 0, "dev", TwoDigit - 1>>

\* C3: whenever version_info is bound, its fourth element is one of the five
\* tags alpha, beta, candidate, final, dev.
C3_FiveTags ==
    \A p \in Procs :
        version_info[p] # Unbound => version_info[p][4] \in FiveTags

OffGrammarTexts == {NOT_A_VERSION, SHORT, OLD_DEV, UNKNOWN_TAIL, POST_TEXT}
\* Those of them pbr's parser rejects.
RejectedTexts == {NOT_A_VERSION, UNKNOWN_TAIL}

C6_SpelledLevelPublished ==
    \A p \in Procs :
        (changes = 0 /\ Finished(p) /\ Installed(p) \in LevelTexts) =>
            /\ pc[p] = "done"
            /\ \A c \in Cores, t \in PreTypes, n \in SerialNums :
                   LET level == IF t = A THEN ALPHA ELSE IF t = B THEN BETA
                                ELSE CANDIDATE
                   IN  Installed(p) = LevelText(c, level, n) =>
                           /\ version_info[p] = <<c[1], c[2], c[3], LevelName(t), n>>
                           /\ Contains(__version__[p], CoreText(c))
                           /\ Contains(__version__[p], level \o str(n))

\* C6 amended: with "X.Y.Z.0aN", "X.Y.Z.0bN" or "X.Y.Z.0rcN" installed the
\* import does not fail and, once complete, has published
\* (X, Y, Z, alpha | beta | candidate, N) and __version__ equal to the
\* installed text; with the spelled-out "X.Y.Z.<level>N" the import fails
\* and publishes nothing.
C6_PreRelease ==
    \A p \in Procs :
        /\ (changes = 0 /\ Installed(p) \in PreTexts) =>
               /\ pc[p] # "failed"
               /\ pc[p] = "done" =>
                      \A c \in Cores, t \in PreTypes, n \in SerialNums :
                          Installed(p) = PreText(c, t, n) =>
                              /\ version_info[p] = <<c[1], c[2], c[3], LevelName(t), n>>
                              /\ __version__[p] = PreText(c, t, n)
        /\ (changes = 0 /\ Installed(p) \in LevelTexts) =>
               /\ pc[p] # "done"
               /\ NothingPublished(p)

C6_Witness ==
    /\ pc["first"] = "done" /\ changes = 0
    /\ Installed("first") = PreText(<<TwoDigit, 0, 0>>, B, 2)
    /\ version_info["first"] = <<TwoDigit, 0, 0, "beta", 2>>

C8_WrittenOnce ==
    /\ [](\A p \in Procs :
            /\ pc[p] = "done" =>
                   version_info[p] # Unbound /\ __version__[p] # Unbound
            /\ Finished(p) =>
                   (version_info[p] = Unbound <=> __version__[p] = Unbound))
    /\ [][\A p \in Procs :
            /\ pc[p] = "done" =>
                   /\ pc'[p] = "done"
                   /\ version_info'[p] = version_info[p]
                   /\ __version__'[p] = __version__[p]
            /\ version_info'[p] # version_info[p] => version_info[p] = Unbound
            /\ __version__'[p] # __version__[p] => __version__[p] = Unbound]_vars

\* The index was changed after the lookup, and the published values are
\* still those of the version that was installed before.
C8_Witness ==
    /\ pc["first"] = "done" /\ changes > 0
    /\ Installed("first") = V200
    /\ version_info["first"] = <<TwoDigit, 0, 0, "dev", 1>>
    /\ __version__["first"] = DevText(<<TwoDigit, 0, 0>>, 2)

\* C9: no statement of the module body changes the environment: whenever
\* an import moves, succeeding or failing, every index and setup-time source
\* is left as it was.
C9_ReadsOnly == [][pc' # pc => env' = env]_vars

C9_Witness ==
    /\ pc["first"] = "failed" /\ changes = 0
    /\ Installed("first") = UNKNOWN_TAIL
    /\ env["first"].index[OwnName] = V100

\* C10: two imports whose environments differ at most in index entries
\* other than pbr_testpackage's (and no index changed since) end with the
\* same outcome; and a completed import's __version__ begins with the
\* major.minor.micro of its version_info, both coming from the one
\* _semantic_version of line 27.
AgreeOnQueried(e, f) ==
    [e EXCEPT !.index[OwnName] = Absent] = [f EXCEPT !.index[OwnName] = Absent]

C10_OnlyQueriedEntry ==
    /\ (changes = 0 /\ AgreeOnQueried(env["first"], env["second"])
        /\ Finished("first") /\ Finished("second")) =>
           Outcome("first") = Outcome("second")
    /\ \A p \in Procs :
           pc[p] = "done" =>
               startswith(__version__[p],
                          CoreText(<<version_info[p][1], version_info[p][2],
                                     version_info[p][3]>>))

C10_Witness ==
    /\ changes = 0 /\ AgreeOnQueried(env["first"], env["second"])
    /\ env["first"].index[OwnName] = Absent
    /\ env["second"].index[OwnName] = V200
    /\ pc["first"] = "done" /\ pc["second"] = "done"
    /\ version_info["second"] = <<2, 3, 1, "beta", 2>>

====
